---- MODULE Spec2Model ----
(***************************************************************************)
(* Model of the "virtual browser" core of shuttle-stealth:                 *)
(*   ShaderCanvas (src/unnamed/part_000): the multi-tab manager            *)
(*   ShaderClient (src/compute.js, lines 96-570): one proxied session      *)
(* An action is one host call, one timer/DOM callback or one promise       *)
(* continuation, run to completion (JavaScript's run-to-completion model). *)
(* The variable trace holds what the last action did, in order: the call,  *)
(* every event a client emitted (with what the canvas delivered to the     *)
(* host in response), every notification the canvas emitted itself and     *)
(* every write to an iframe. The variable seen is a history of the events  *)
(* emitted over the whole run, kept by the specification SpecClient.       *)
(* Specifications: SpecCanvas (the manager, three tabs), Spec (manager and *)
(* clients, two tabs), SpecClient (one session, every signal and document  *)
(* of its iframes), SpecResolve (URL resolution over a set of inputs),     *)
(* SpecSignals (one session whose iframe replaces its document),           *)
(* SpecSafetyNet (one session whose iframe never fires load, with the      *)
(* timer firing forever).                                                  *)
(***************************************************************************)
EXTENDS Integers, Sequences, FiniteSets, TLC

\* ------------------------------------------------------------------ bounds
\* number of createSurface calls explored by SpecCanvas
MaxSurfaces == 3
\* number of createSurface calls explored by Spec
MaxTabs == 2
\* number of distinct values Math.random() can yield for a surface id
NumIds == 3
\* number of setFrame calls explored on one client by SpecClient
MaxRebinds == 1
\* length of the host or query part of the inputs explored by SpecResolve
MaxHost == 2

Ids == 1..NumIds
\* this.activeSurfaceId = null
NoId == 0

VARIABLES
  surfaces,         \* ShaderCanvas.surfaces: id -> [id, client, title, favicon]
  activeSurfaceId,  \* ShaderCanvas.activeSurfaceId
  clients,          \* every ShaderClient constructed so far, in order
  frames,           \* the iframe of each client: style.display, in the DOM
  swSupported,      \* 'serviceWorker' in navigator
  unhandled,        \* clients whose init().then() callback threw
  onlyCreates,      \* the host has called nothing but createSurface
  trace,            \* what the last action did
  seen              \* history: what the clients' listeners were told so far

vars ==
  <<surfaces, activeSurfaceId, clients, frames, swSupported, unhandled,
    onlyCreates, trace, seen>>

\* the first entry of trace: the operation, and the canvas as it found it.
\* (The inputs of different operations have different shapes; TLC compares
\* records field by field in the order the field names first occur in the
\* module, so op is named here, ahead of every input.)
Call(op, id, c, input) ==
  [op |-> op, t |-> "call", id |-> id, c |-> c, input |-> input,
   active |-> activeSurfaceId, before |-> surfaces]

\* ------------------------------------------------------------ event names
SURFACE_CREATED == "surfaceCreated"
SURFACE_CHANGE == "surfaceChange"
SURFACE_CLOSED == "surfaceClosed"
SURFACE_UPDATE == "surfaceUpdate"
READY == "ready"
ERROR == "error"
NAVIGATING == "navigating"
URL_CHANGE == "urlChange"
TITLE_CHANGE == "titleChange"
FAVICON_CHANGE == "faviconChange"
STATUS_CHANGE == "statusChange"
LOADING_START == "loadingStart"
LOADING_STOP == "loadingStop"

\* payload of emit(SURFACE_CHANGE, null)
NoSurface == [id |-> NoId, client |-> 0, title |-> "", favicon |-> ""]

\* ------------------------------------------------- the Map this.surfaces
\* A JavaScript Map: keys unique, iteration in insertion order, set() on an
\* existing key replaces the value and keeps the key's position.
MapHas(m, id) == \E i \in 1..Len(m) : m[i].id = id

MapIndex(m, id) == CHOOSE i \in 1..Len(m) : m[i].id = id

MapGet(m, id) == m[MapIndex(m, id)]

MapSet(m, s) ==
  IF MapHas(m, s.id) THEN [m EXCEPT ![MapIndex(m, s.id)] = s] ELSE Append(m, s)

MapDelete(m, id) ==
  IF MapHas(m, id)
  THEN LET k == MapIndex(m, id)
       IN  SubSeq(m, 1, k - 1) \o SubSeq(m, k + 1, Len(m))
  ELSE m

\* mutant: the key inserted last
MapLastKey(m) == m[Len(m)].id

\* this.surfaces.keys().next().value
MapFirstKey(m) == m[1].id

\* --------------------------------------------------- the canvas (manager)
\* The part of the state a canvas method reads and writes, threaded through
\* the operators below: [surfaces, active, frames, trace].

\* ShaderCanvas.emit: the host listens to every event
CanvasEmit(m, kind, data) ==
  [m EXCEPT !.trace = Append(@, [t |-> "host", kind |-> kind, data |-> data])]

\* iframe.style.display = value
SetDisplay(m, c, value) ==
  [m EXCEPT !.frames[c].display = value,
            !.trace = Append(@, [t |-> "display", c |-> c, value |-> value])]

\* ------------------------------------------------------------ URL strings
\* A string is a sequence of tokens; a token stands for one character, or
\* for a literal run of characters ("http", "about:blank", "/calc/").
Undefined == "undefined"

NoUrl == <<>>

AboutBlank == <<"about:blank">>

\* window.__uv$config.encodeUrl / decodeUrl: Ultraviolet.codec.xor, an
\* involution on strings (shader.config.js:10-11)
Xor(s) == IF s # <<>> /\ s[1] = "xor" THEN Tail(s) ELSE <<"xor">> \o s

\* this.encodeUrl, compute.js:262-264
encodeUrl(url) == <<"origin", "/calc/">> \o Xor(url)

PrefixAt(url) ==
  IF \E i \in 1..Len(url) : url[i] = "/calc/"
  THEN CHOOSE i \in 1..Len(url) :
         url[i] = "/calc/" /\ \A j \in 1..(i - 1) : url[j] # "/calc/"
  ELSE 0

\* url.split(prefix)[1]: the text between the first and the second prefix
AfterPrefix(url) ==
  LET k == PrefixAt(url)
      rest == SubSeq(url, k + 1, Len(url))
      n == PrefixAt(rest)
  IN  IF n = 0 THEN rest ELSE SubSeq(rest, 1, n - 1)

\* this.decodeUrl, compute.js:265-271
decodeUrl(url) == IF PrefixAt(url) # 0 THEN Xor(AfterPrefix(url)) ELSE url

\* ------------------------------------------------------- URL resolution
Alpha == {"a", "b", "http"}

SchemeChars == Alpha \cup {"."}

RECURSIVE TrimStart(_)
TrimStart(s) == IF s # <<>> /\ s[1] = " " THEN TrimStart(Tail(s)) ELSE s

RECURSIVE TrimEnd(_)
TrimEnd(s) ==
  IF s # <<>> /\ s[Len(s)] = " " THEN TrimEnd(SubSeq(s, 1, Len(s) - 1)) ELSE s

\* String.prototype.trim
Trim(s) == TrimEnd(TrimStart(s))

\* index of the first occurrence of token ch in s, 0 if none
IndexOf(s, ch) ==
  IF \E i \in 1..Len(s) : s[i] = ch
  THEN CHOOSE i \in 1..Len(s) : s[i] = ch /\ \A j \in 1..(i - 1) : s[j] # ch
  ELSE 0

RECURSIVE SkipSlashes(_)
SkipSlashes(s) == IF s # <<>> /\ s[1] = "/" THEN SkipSlashes(Tail(s)) ELSE s

\* percent-encoding of a path: the space is the only token that changes
RECURSIVE EncodePath(_)
EncodePath(s) ==
  IF s = <<>> THEN <<>>
  ELSE <<IF s[1] = " " THEN "%20" ELSE s[1]>> \o EncodePath(Tail(s))

UrlFailure == [ok |-> FALSE, href |-> <<>>, hostname |-> <<>>]

\* host[:port] of an authority: the port is digits only (no token is a
\* digit, so it must be empty) and no space may occur in a host
ParseAuthority(scheme, auth, path, special) ==
  LET c == IndexOf(auth, ":")
      host == IF c = 0 THEN auth ELSE SubSeq(auth, 1, c - 1)
      port == IF c = 0 THEN <<>> ELSE SubSeq(auth, c + 1, Len(auth))
  IN  IF port # <<>> \/ (\E i \in 1..Len(host) : host[i] = " ")
         \/ (special /\ host = <<>>) \/ (c # 0 /\ host = <<>>)
      THEN UrlFailure
      ELSE [ok |-> TRUE,
            href |-> scheme \o <<":", "/", "/">> \o host
                     \o (IF path = <<>> /\ special THEN <<"/">> ELSE EncodePath(path)),
            hostname |-> host]

\* new URL(s) without a base (WHATWG URL parser, on the tokens above)
NewURL(s) ==
  LET k == IndexOf(s, ":")
  IN  IF k < 2 \/ s[1] \notin Alpha \/ (\E i \in 2..(k - 1) : s[i] \notin SchemeChars)
      THEN UrlFailure
      ELSE LET scheme == SubSeq(s, 1, k - 1)
               rest == SubSeq(s, k + 1, Len(s))
               special == scheme = <<"http">>
               hasAuth == Len(rest) >= 2 /\ rest[1] = "/" /\ rest[2] = "/"
               body == IF special THEN SkipSlashes(rest)
                       ELSE IF hasAuth THEN SubSeq(rest, 3, Len(rest)) ELSE rest
               sl == IndexOf(body, "/")
               auth == IF sl = 0 THEN body ELSE SubSeq(body, 1, sl - 1)
               path == IF sl = 0 THEN <<>> ELSE SubSeq(body, sl, Len(body))
           IN  IF special \/ hasAuth
               THEN ParseAuthority(scheme, auth, path, special)
               ELSE [ok |-> TRUE,
                     href |-> scheme \o <<":">>
                              \o (IF rest # <<>> /\ rest[1] = "/"
                                  THEN EncodePath(rest) ELSE rest),
                     hostname |-> <<>>]

\* encodeURIComponent
RECURSIVE encodeURIComponent(_)
encodeURIComponent(s) ==
  IF s = <<>> THEN <<>>
  ELSE <<CASE s[1] = " " -> "%20"
           [] s[1] = ":" -> "%3A"
           [] s[1] = "/" -> "%2F"
           [] OTHER -> s[1]>> \o encodeURIComponent(Tail(s))

\* the configured template 'https://duckduckgo.com/?q=%s', up to the %s
SearchTemplate == <<"https://duckduckgo.com/?q=">>

\* mutant: 'http://' + input is used whatever its host
parseUrlNoDot(input) ==
  LET trimmed == Trim(input)
      direct == NewURL(trimmed)
      withProtocol == NewURL(<<"http", ":", "/", "/">> \o trimmed)
  IN  IF direct.ok THEN direct.href
      ELSE IF withProtocol.ok THEN withProtocol.href
           ELSE SearchTemplate \o encodeURIComponent(trimmed)

\* ShaderClient.parseUrl(input).toString()
parseUrl(input) ==
  LET trimmed == Trim(input)
      direct == NewURL(trimmed)
      withProtocol == NewURL(<<"http", ":", "/", "/">> \o trimmed)
  IN  IF direct.ok THEN direct.href
      ELSE IF withProtocol.ok /\ IndexOf(withProtocol.hostname, ".") # 0
           THEN withProtocol.href
           ELSE SearchTemplate \o encodeURIComponent(trimmed)

\* ------------------------------------------------- the client (one session)
\* A client record holds this.state, the deduplication fields _lastTitle,
\* _lastFavicon, _lastUrl, the id its canvas handlers were bound with, and
\* the position of the canvas' init().then(...) chain (pc, url).
\* A client method maps r = [cl |-> client, ev |-> effects so far] to the
\* same shape; an effect is an emitted event, a write of iframe.src, or the
\* exception the method threw.

\* the iframes a client can be bound to: the one its canvas created for it,
\* and another iframe of the host's page
OwnFrame == "own"

OtherFrame == "other"

Frames == {OwnFrame, OtherFrame}

\* setFrame(element) on a client already bound (this.iframe and
\* this._pollingInterval are set by the constructor): the running interval
\* is cleared and a new one started on the element, and a new load listener
\* is added to the element; no listener is ever removed
setFrame(r, f) ==
  [r EXCEPT !.cl.iframe = f, !.cl.pollingInterval = f,
            !.cl.loadListeners = Append(@, f),
            !.cl.tracked = @ \cup {f}]

\* constructor, compute.js:126-172, with options.frame the canvas' iframe.
\* pollingInterval is the iframe the running interval's callback reads,
\* loadListeners the iframes of the load listeners added so far, in order,
\* tracked the iframes whose current document's window carries the
\* beforeunload / unload listeners (handleLoadStart) of this client.
NewClient(id, url) ==
  [id |-> id, initialized |-> FALSE, ready |-> FALSE, loading |-> FALSE,
   error |-> "null", computeWorkerRegistered |-> FALSE,
   lastTitle |-> Undefined, lastFavicon |-> Undefined, lastUrl |-> NoUrl,
   iframe |-> OwnFrame, pollingInterval |-> OwnFrame,
   loadListeners |-> <<OwnFrame>>, tracked |-> {OwnFrame},
   pc |-> "new", url |-> url]

\* getState(): a copy of this.state
getState(cl) ==
  [initialized |-> cl.initialized, ready |-> cl.ready, loading |-> cl.loading,
   engine |-> "vector", searchEngine |-> "duckduckgo",
   computeWorkerRegistered |-> cl.computeWorkerRegistered, error |-> cl.error]

\* ShaderClient.emit
emit(r, kind, data) ==
  [r EXCEPT !.ev = Append(@, [t |-> "emit", kind |-> kind, data |-> data])]

\* updateState(updates): Object.assign, then statusChange with a copy
updateState(r, updates) ==
  LET cl2 == [f \in DOMAIN r.cl |->
                IF f \in DOMAIN updates THEN updates[f] ELSE r.cl[f]]
  IN  emit([r EXCEPT !.cl = cl2], STATUS_CHANGE, getState(cl2))

\* init() up to its first await (or its early return)
initStart(r, sw) ==
  IF r.cl.initialized THEN r
  ELSE IF ~sw
       THEN emit(updateState(r, [error |-> "env"]), ERROR, "env")
       ELSE updateState(r, [initialized |-> TRUE])

\* init() after its awaits: the dependencies loaded (ok) or one of them
\* failed (the catch block)
initFinish(r, ok) ==
  IF ok
  THEN emit(updateState(updateState(r, [computeWorkerRegistered |-> TRUE]),
                        [ready |-> TRUE]),
            READY, "")
  ELSE emit(updateState(r, [error |-> "dep"]), ERROR, "dep")

\* decode(url)
decode(cl, url) == IF ~cl.ready THEN url ELSE decodeUrl(url)

\* mutant: no readiness check
navigateUnchecked(r, url) ==
  LET encodedUrl == encodeUrl(parseUrl(url))
      r1 == emit(updateState(r, [loading |-> TRUE]), LOADING_START, "")
      r2 == emit(r1, NAVIGATING, [original |-> url, encoded |-> encodedUrl])
  IN  [r2 EXCEPT !.ev = Append(@, [t |-> "src", kind |-> "src", data |-> encodedUrl]),
                 !.ret = encodedUrl]

\* navigate(url)
navigate(r, url) ==
  IF ~r.cl.ready
  THEN [r EXCEPT !.ev = Append(@, [t |-> "throw", kind |-> "throw", data |-> "Client not ready"])]
  ELSE LET encodedUrl == encodeUrl(parseUrl(url))
           r1 == emit(updateState(r, [loading |-> TRUE]), LOADING_START, "")
           r2 == emit(r1, NAVIGATING, [original |-> url, encoded |-> encodedUrl])
       IN  [r2 EXCEPT !.ev = Append(@, [t |-> "src", kind |-> "src", data |-> encodedUrl]),
                      !.ret = encodedUrl]

\* handleLoadStart: the beforeunload / unload listener
handleLoadStart(r) ==
  IF ~r.cl.loading
  THEN emit(updateState(r, [loading |-> TRUE]), LOADING_START, "")
  ELSE r

\* checkMetadata; doc is what the iframe's document yields when read
checkMetadata(r, doc) ==
  IF ~doc.ok THEN r
  ELSE LET r1 == IF doc.title # "" /\ doc.title # r.cl.lastTitle
                 THEN emit([r EXCEPT !.cl.lastTitle = doc.title],
                           TITLE_CHANGE, doc.title)
                 ELSE r
       IN  IF doc.favicon # r1.cl.lastFavicon
           THEN emit([r1 EXCEPT !.cl.lastFavicon = doc.favicon],
                     FAVICON_CHANGE, doc.favicon)
           ELSE r1

\* setupInternalTracking of the closures attached to iframe f: called
\* where a read of f has just succeeded, so its window can be listened to
setupInternalTracking(r, f) == [r EXCEPT !.cl.tracked = @ \cup {f}]

\* mutant: the URL is reported on every load
handleLoadStopAlways(r, f, doc) ==
  IF ~doc.ok THEN r
  ELSE LET r1 == emit(updateState(r, [loading |-> FALSE]), LOADING_STOP, "")
           r2 == checkMetadata(r1, doc)
       IN  setupInternalTracking(
             emit([r2 EXCEPT !.cl.lastUrl = doc.url], URL_CHANGE,
                  [original |-> doc.url, decoded |-> decode(r2.cl, doc.url)]),
             f)

\* handleLoadStop: the load listener attached to iframe f
handleLoadStop(r, f, doc) ==
  IF ~doc.ok THEN r
  ELSE LET r1 == emit(updateState(r, [loading |-> FALSE]), LOADING_STOP, "")
           r2 == checkMetadata(r1, doc)
       IN  IF r2.cl.lastUrl = doc.url THEN r2
           ELSE setupInternalTracking(
                  emit([r2 EXCEPT !.cl.lastUrl = doc.url], URL_CHANGE,
                       [original |-> doc.url, decoded |-> decode(r2.cl, doc.url)]),
                  f)

\* mutant: the tick never stops the loading state
pollingTickNoSafety(r, f, doc) ==
  IF ~doc.ok THEN r
  ELSE LET r1 == checkMetadata(r, doc)
       IN  IF doc.url # r1.cl.lastUrl
           THEN setupInternalTracking(
                  emit([r1 EXCEPT !.cl.lastUrl = doc.url], URL_CHANGE,
                       [original |-> doc.url, decoded |-> decode(r1.cl, doc.url)]),
                  f)
           ELSE r1

\* the setInterval callback attached to iframe f
pollingTick(r, f, doc) ==
  IF ~doc.ok THEN r
  ELSE LET r1 == checkMetadata(r, doc)
           r2 == IF doc.url # r1.cl.lastUrl
                 THEN setupInternalTracking(
                        emit([r1 EXCEPT !.cl.lastUrl = doc.url], URL_CHANGE,
                             [original |-> doc.url, decoded |-> decode(r1.cl, doc.url)]),
                        f)
                 ELSE r1
       IN  IF r2.cl.loading /\ doc.complete
           THEN emit(updateState(r2, [loading |-> FALSE]), LOADING_STOP, "")
           ELSE r2

\* the iframe f fires load: every load listener the client added to f runs,
\* in the order they were added, each reading the same document
RECURSIVE dispatchLoad(_, _, _, _)
dispatchLoad(r, listeners, f, doc) ==
  IF listeners = <<>> THEN r
  ELSE dispatchLoad(IF Head(listeners) = f THEN handleLoadStop(r, f, doc) ELSE r,
                    Tail(listeners), f, doc)

\* a client method is entered with no effects yet
Enter(cl) == [cl |-> cl, ev |-> <<>>, ret |-> NoUrl]

\* ------------------------------------------- the canvas' event forwarding
\* _bindSurfaceEvents(id, client): notifyUpdate
notifyUpdate(m, id) ==
  IF MapHas(m.surfaces, id)
  THEN CanvasEmit(m, SURFACE_UPDATE, MapGet(m.surfaces, id))
  ELSE m

\* mutant: every event is forwarded, whichever session is active
bubbleAlways(m, id, kind, data) == CanvasEmit(m, kind, data)

\* _bindSurfaceEvents(id, client): bubble
bubble(m, id, kind, data) ==
  IF m.active = id THEN CanvasEmit(m, kind, data) ELSE m

\* mutant: the stored title is left as it was
StoreTitleNot(m, id, d) == m

\* mutant: the title is stored into every session
StoreTitleAll(m, id, d) ==
  [m EXCEPT !.surfaces = [i \in 1..Len(@) |-> [@[i] EXCEPT !.title = d]]]

\* const surface = this.surfaces.get(id); if (surface) surface.title = d
StoreTitle(m, id, d) ==
  IF MapHas(m.surfaces, id)
  THEN [m EXCEPT !.surfaces[MapIndex(m.surfaces, id)].title = d]
  ELSE m

\* const surface = this.surfaces.get(id); if (surface) surface.favicon = d
StoreFavicon(m, id, d) ==
  IF MapHas(m.surfaces, id)
  THEN [m EXCEPT !.surfaces[MapIndex(m.surfaces, id)].favicon = d]
  ELSE m

\* the listener _bindSurfaceEvents registered on the client for e.kind
bindSurfaceEvents(m, id, e) ==
  CASE e.kind = TITLE_CHANGE ->
         bubble(notifyUpdate(StoreTitle(m, id, e.data), id), id, TITLE_CHANGE, e.data)
    [] e.kind = FAVICON_CHANGE ->
         bubble(notifyUpdate(StoreFavicon(m, id, e.data), id), id, FAVICON_CHANGE, e.data)
    [] e.kind \in {LOADING_START, LOADING_STOP} ->
         bubble(notifyUpdate(m, id), id, e.kind, e.data)
    [] OTHER -> bubble(m, id, e.kind, e.data)

\* One effect of client c (bound to id) reaches the canvas. An emitted event
\* is logged with the active id at that moment, the collection before and
\* after its listener ran, and the notifications the listener delivered.
Effect(m, c, id, e) ==
  IF e.t = "emit"
  THEN LET h == bindSurfaceEvents([m EXCEPT !.trace = <<>>], id, e)
       IN  [h EXCEPT !.trace =
              Append(m.trace,
                     [t |-> "client", c |-> c, id |-> id, kind |-> e.kind,
                      data |-> e.data, active |-> m.active,
                      before |-> m.surfaces, after |-> h.surfaces,
                      out |-> h.trace])]
  ELSE [m EXCEPT !.trace = Append(@, [t |-> e.t, c |-> c, data |-> e.data])]

RECURSIVE Deliver(_, _, _, _)
Deliver(m, c, id, evs) ==
  IF evs = <<>> THEN m
  ELSE Deliver(Effect(m, c, id, Head(evs)), c, id, Tail(evs))

\* ------------------------------------------------------ canvas operations
\* switchSurface(id); cls are the clients (for surface.client.getState())
switchSurface(m, cls, id) ==
  IF ~MapHas(m.surfaces, id) THEN m
  ELSE LET m1 == IF m.active # NoId /\ MapHas(m.surfaces, m.active)
                 THEN SetDisplay(m, MapGet(m.surfaces, m.active).client, "none")
                 ELSE m
           surface == MapGet(m1.surfaces, id)
           m2 == [SetDisplay(m1, surface.client, "block") EXCEPT !.active = id]
           m3 == CanvasEmit(m2, SURFACE_CHANGE, surface)
           state == getState(cls[surface.client])
           m4 == CanvasEmit(m3, STATUS_CHANGE, state)
       IN  IF state.loading
           THEN CanvasEmit(m4, LOADING_START, "")
           ELSE CanvasEmit(m4, LOADING_STOP, "")

\* mutant: the closed session stays the active one
closeSurfaceKeepActive(m, cls, id) ==
  IF ~MapHas(m.surfaces, id) THEN m
  ELSE LET surface == MapGet(m.surfaces, id)
           m1 == [m EXCEPT !.frames[surface.client].inDom = FALSE,
                           !.trace = Append(@, [t |-> "remove", c |-> surface.client]),
                           !.surfaces = MapDelete(@, id)]
       IN  CanvasEmit(m1, SURFACE_CLOSED, id)

\* closeSurface(id)
closeSurface(m, cls, id) ==
  IF ~MapHas(m.surfaces, id) THEN m
  ELSE LET surface == MapGet(m.surfaces, id)
           m1 == [m EXCEPT !.frames[surface.client].inDom = FALSE,
                           !.trace = Append(@, [t |-> "remove", c |-> surface.client]),
                           !.surfaces = MapDelete(@, id)]
           m2 == CanvasEmit(m1, SURFACE_CLOSED, id)
       IN  IF m2.active = id
           THEN LET m3 == [m2 EXCEPT !.active = NoId]
                IN  IF Len(m3.surfaces) > 0
                    THEN switchSurface(m3, cls, MapFirstKey(m3.surfaces))
                    ELSE CanvasEmit(m3, SURFACE_CHANGE, NoSurface)
           ELSE m2

\* url && url !== 'about:blank'
NonBlank(url) == url # <<>> /\ url # AboutBlank

\* mutant: every new session is switched to
createSurfaceAlwaysSwitch(m, cls, c, id, r) ==
  LET surface == [id |-> id, client |-> c, title |-> "New Tab", favicon |-> ""]
      m1 == [m EXCEPT !.frames = Append(@, [display |-> "none", inDom |-> TRUE]),
                      !.surfaces = MapSet(@, surface)]
      m2 == Deliver(m1, c, id, r.ev)
      m3 == CanvasEmit(m2, SURFACE_CREATED, surface)
  IN  switchSurface(m3, cls, id)

\* mutant: only the first session ever created is switched to
createSurfaceFirstEver(m, cls, c, id, r) ==
  LET surface == [id |-> id, client |-> c, title |-> "New Tab", favicon |-> ""]
      m1 == [m EXCEPT !.frames = Append(@, [display |-> "none", inDom |-> TRUE]),
                      !.surfaces = MapSet(@, surface)]
      m2 == Deliver(m1, c, id, r.ev)
      m3 == CanvasEmit(m2, SURFACE_CREATED, surface)
  IN  IF c = 1 THEN switchSurface(m3, cls, id) ELSE m3

\* createSurface(url), id being what Math.random() yields: everything up to
\* the return, with the part of client.init() that runs before its first
\* await. r is that call's outcome on the new client c.
createSurface(m, cls, c, id, r) ==
  LET surface == [id |-> id, client |-> c, title |-> "New Tab", favicon |-> ""]
      m1 == [m EXCEPT !.frames = Append(@, [display |-> "none", inDom |-> TRUE]),
                      !.surfaces = MapSet(@, surface)]
      m2 == Deliver(m1, c, id, r.ev)
      m3 == CanvasEmit(m2, SURFACE_CREATED, surface)
  IN  IF Len(m3.surfaces) = 1 THEN switchSurface(m3, cls, id) ELSE m3

\* ----------------------------------------------------------------- inputs
\* what navigate / createSurface are given
Blank == AboutBlank

Inputs == {<<"a", ".", "b">>}

\* raw locations an iframe can be at
Urls == {encodeUrl(<<"http", ":", "/", "/", "a", ".", "b", "/">>)}

Titles == {"T"}

Favicons == {""}

\* what one client's iframes can show over time
ClientUrls ==
  {encodeUrl(<<"http", ":", "/", "/", "a", ".", "b", "/">>),
   encodeUrl(<<"http", ":", "/", "/", "b", ".", "a", "/">>)}

ClientTitles == {"", "T"}

ClientFavicons == {"", "F"}

\* what navigate can be given when URL resolution is studied: an optional
\* scheme, up to MaxHost tokens of a host name or a query (spaces included,
\* leading and trailing ones too), and an optional path or port separator
HostAlpha == {"a", ".", " "}

Prefixes == {<<>>, <<"http", ":", "/", "/">>, <<"http", ":">>, <<"a", ":">>}

Suffixes == {<<>>, <<"/">>, <<"/", " ", "b">>, <<":">>}

ResolveInputs ==
  {p \o h \o x : p \in Prefixes,
                 h \in UNION {[1..k -> HostAlpha] : k \in 0..MaxHost},
                 x \in Suffixes}

\* a failed read: contentDocument is null and contentWindow.location throws
\* (cross-origin document, or iframe removed from the DOM)
DocFail == [ok |-> FALSE, url |-> NoUrl, title |-> "", favicon |-> "", complete |-> FALSE]

\* successful reads
DocsOk ==
  [ok : {TRUE}, url : Urls, title : Titles, favicon : Favicons, complete : {TRUE}]

\* ---------------------------------------------------------------- history
\* seen summarises every event the clients have emitted since Init:
\*   stops      -1 until navigate() starts a navigation and again from the
\*              next loadingStart on; otherwise the number of loadingStop
\*              events since the latest navigating event (2 = two or more)
\*   loads      while stops is counted, the number of load events of the
\*              client's iframes since that navigating event (2 = two or more)
\*   url        the raw URL of the latest urlChange event
\* These are kept only where a specification starts with seen.on.
\*   spinner    what the host's loading indicator shows (kept everywhere)
ObserveEvent(s, e) ==
  CASE e.kind = LOADING_START -> [s EXCEPT !.stops = -1, !.loads = 0]
    [] e.kind = NAVIGATING -> [s EXCEPT !.stops = 0, !.loads = 0]
    [] e.kind = LOADING_STOP ->
         [s EXCEPT !.stops = IF @ = -1 THEN -1 ELSE IF @ < 2 THEN @ + 1 ELSE 2]
    [] e.kind = URL_CHANGE ->
         [s EXCEPT !.url = e.data.original]
    [] OTHER -> s

ObserveCall(s, call) ==
  IF call.op = "load" /\ s.stops # -1
  THEN [s EXCEPT !.loads = IF @ < 2 THEN @ + 1 ELSE 2]
  ELSE s

RECURSIVE Observe(_, _)
Observe(s, entries) ==
  IF entries = <<>> THEN s
  ELSE Observe(CASE Head(entries).t = "client" -> ObserveEvent(s, Head(entries))
                 [] Head(entries).t = "call" -> ObserveCall(s, Head(entries))
                 [] OTHER -> s,
               Tail(entries))

\* the host's spinner: the latest loadingStart ("start") or loadingStop
\* ("stop") the host was notified of since the latest surfaceChange, which
\* the canvas emits whenever it assigns activeSurfaceId; "none" before any
HostSees(sp, kind) ==
  CASE kind = SURFACE_CHANGE -> "none"
    [] kind = LOADING_START -> "start"
    [] kind = LOADING_STOP -> "stop"
    [] OTHER -> sp

RECURSIVE Spinner(_, _)
Spinner(sp, entries) ==
  IF entries = <<>> THEN sp
  ELSE Spinner(CASE Head(entries).t = "host" -> HostSees(sp, Head(entries).kind)
                 [] Head(entries).t = "client" -> Spinner(sp, Head(entries).out)
                 [] OTHER -> sp,
               Tail(entries))

NothingSeen(on) ==
  [on |-> on, stops |-> -1, loads |-> 0, url |-> NoUrl, spinner |-> "none"]

\* what reading the iframe can yield where signals are studied
DocsSignal ==
  [ok : {TRUE}, url : ClientUrls, title : Titles, favicon : Favicons,
   complete : BOOLEAN] \cup {DocFail}

\* what reading an iframe of the client under study can yield
DocsRead ==
  [ok : {TRUE}, url : ClientUrls, title : ClientTitles,
   favicon : ClientFavicons, complete : BOOLEAN] \cup {DocFail}

\* ------------------------------------------------------------------ state
Init ==
  /\ surfaces = <<>>
  /\ activeSurfaceId = NoId
  /\ clients = <<>>
  /\ frames = <<>>
  /\ swSupported \in BOOLEAN
  /\ unhandled = {}
  /\ onlyCreates = TRUE
  /\ trace = <<>>
  /\ seen = NothingSeen(FALSE)

\* the same state, with the history of events kept
InitClient ==
  /\ surfaces = <<>>
  /\ activeSurfaceId = NoId
  /\ clients = <<>>
  /\ frames = <<>>
  /\ swSupported \in BOOLEAN
  /\ unhandled = {}
  /\ onlyCreates = TRUE
  /\ trace = <<>>
  /\ seen = NothingSeen(TRUE)

Canvas(call) ==
  [surfaces |-> surfaces, active |-> activeSurfaceId, frames |-> frames,
   trace |-> <<call>>]

Commit(m) ==
  /\ surfaces' = m.surfaces
  /\ activeSurfaceId' = m.active
  /\ frames' = m.frames
  /\ trace' = m.trace
  /\ seen' = [(IF seen.on THEN Observe(seen, m.trace) ELSE seen)
                EXCEPT !.spinner = Spinner(@, m.trace)]

\* ---------------------------------------------------------------- actions
\* host: canvas.createSurface(url)
CreateSurface(id, url) ==
  /\ LET c == Len(clients) + 1
         r == initStart(Enter(NewClient(id, url)), swSupported)
         cl == [r.cl EXCEPT !.pc = IF r.cl.initialized THEN "awaiting" ELSE "settled"]
         cls == Append(clients, cl)
     IN  /\ clients' = cls
         /\ Commit(createSurface(Canvas(Call("createSurface", id, c, url)), cls, c, id, r))
  /\ UNCHANGED <<swSupported, unhandled, onlyCreates>>

\* host: canvas.switchSurface(id)
SwitchSurface(id) ==
  /\ Commit(switchSurface(Canvas(Call("switchSurface", id, 0, <<>>)), clients, id))
  /\ onlyCreates' = FALSE
  /\ UNCHANGED <<clients, swSupported, unhandled>>

\* host: canvas.closeSurface(id)
CloseSurface(id) ==
  /\ Commit(closeSurface(Canvas(Call("closeSurface", id, 0, <<>>)), clients, id))
  /\ onlyCreates' = FALSE
  /\ UNCHANGED <<clients, swSupported, unhandled>>

\* client c ran a method with outcome r
ClientStep(call, c, r) ==
  /\ clients' = [clients EXCEPT ![c] = r.cl]
  /\ Commit(Deliver(Canvas(call), c, clients[c].id, r.ev))

\* host: canvas.navigate(url), proxied to the active surface's client
CanvasNavigate(input) ==
  /\ IF activeSurfaceId # NoId /\ MapHas(surfaces, activeSurfaceId)
     THEN LET c == MapGet(surfaces, activeSurfaceId).client
          IN  ClientStep(Call("canvas.navigate", activeSurfaceId, c, input), c,
                         navigate(Enter(clients[c]), input))
     ELSE /\ trace' = <<Call("canvas.navigate", NoId, 0, input)>>
          /\ UNCHANGED <<surfaces, activeSurfaceId, clients, frames, seen>>
  /\ UNCHANGED <<swSupported, unhandled, onlyCreates>>

\* host: surface.client.navigate(url) on a client it was handed
ClientNavigate(c, input) ==
  /\ c \in 1..Len(clients)
  /\ ClientStep(Call("navigate", clients[c].id, c, input), c,
                navigate(Enter(clients[c]), input))
  /\ UNCHANGED <<swSupported, unhandled, onlyCreates>>

\* the awaits of createSurface's client.init() end: loaded, or one failed
InitResume(c, ok) ==
  /\ c \in 1..Len(clients)
  /\ clients[c].pc = "awaiting"
  /\ LET r == initFinish(Enter(clients[c]), ok)
     IN  ClientStep(Call("init.resume", clients[c].id, c, <<>>), c,
                    [r EXCEPT !.cl.pc = "settled"])
  /\ UNCHANGED <<swSupported, unhandled, onlyCreates>>

\* the callback createSurface chained with .then() on client.init(); an
\* exception in it is an unhandled rejection
InitThen(c) ==
  /\ c \in 1..Len(clients)
  /\ clients[c].pc = "settled"
  /\ LET r0 == Enter([clients[c] EXCEPT !.pc = "done", !.url = Blank])
         r == IF NonBlank(clients[c].url) THEN navigate(r0, clients[c].url) ELSE r0
         threw == \E i \in 1..Len(r.ev) : r.ev[i].t = "throw"
     IN  /\ ClientStep(Call("init.then", clients[c].id, c, clients[c].url), c, r)
         /\ unhandled' = IF threw THEN unhandled \cup {c} ELSE unhandled
  /\ UNCHANGED <<swSupported, onlyCreates>>

\* the canvas' iframe, or the iframe f, starts to show a new document: the
\* listeners added to the window of the previous one are gone with it
NewDocument(c, f) ==
  /\ c \in 1..Len(clients)
  /\ f = OwnFrame => frames[c].inDom
  /\ ClientStep(Call("newDocument", clients[c].id, c, f), c,
                Enter([clients[c] EXCEPT !.tracked = @ \ {f}]))
  /\ UNCHANGED <<swSupported, unhandled, onlyCreates>>

\* the window of the canvas' iframe fires beforeunload / unload, and the
\* client's listener is on it
LoadStart(c) ==
  /\ c \in 1..Len(clients)
  /\ frames[c].inDom
  /\ OwnFrame \in clients[c].tracked
  /\ ClientStep(Call("loadStart", clients[c].id, c, <<>>), c,
                handleLoadStart(Enter(clients[c])))
  /\ UNCHANGED <<swSupported, unhandled, onlyCreates>>

\* the iframe f fires load (the canvas' iframe only while it is in the
\* DOM); doc is what reading f yields
LoadStop(c, f, doc) ==
  /\ c \in 1..Len(clients)
  /\ f = OwnFrame => frames[c].inDom
  /\ ClientStep(Call("load", clients[c].id, c, [frame |-> f, doc |-> doc]), c,
                dispatchLoad(Enter(clients[c]), clients[c].loadListeners, f, doc))
  /\ UNCHANGED <<swSupported, unhandled, onlyCreates>>

\* the 500 ms timer fires; doc is what reading its iframe yields, and an
\* iframe out of the DOM cannot be read
Tick(c, doc) ==
  /\ c \in 1..Len(clients)
  /\ (clients[c].pollingInterval = OwnFrame /\ ~frames[c].inDom) => doc = DocFail
  /\ ClientStep(Call("tick", clients[c].id, c,
                     [frame |-> clients[c].pollingInterval, doc |-> doc]), c,
                pollingTick(Enter(clients[c]), clients[c].pollingInterval, doc))
  /\ UNCHANGED <<swSupported, unhandled, onlyCreates>>

\* host: surface.client.init(), a call after the one createSurface made.
\* It returns at once, or fails the environment check the first call
\* failed: 'serviceWorker' in navigator does not change while the page lives.
ClientInit(c) ==
  /\ c \in 1..Len(clients)
  /\ ClientStep(Call("init", clients[c].id, c, <<>>), c,
                initStart(Enter(clients[c]), swSupported))
  /\ UNCHANGED <<swSupported, unhandled, onlyCreates>>

\* host: surface.client.setFrame(f)
SetFrame(c, f) ==
  /\ c \in 1..Len(clients)
  /\ ClientStep(Call("setFrame", clients[c].id, c, f), c,
                setFrame(Enter(clients[c]), f))
  /\ UNCHANGED <<swSupported, unhandled, onlyCreates>>

\* Math.random() is opaque and ids are only compared for equality: a new id
\* is one already drawn or the least one not yet drawn
DrawableIds ==
  {i \in Ids : i <= 1 + Cardinality({clients[k].id : k \in 1..Len(clients)})}

Next ==
  \/ \E id \in DrawableIds, url \in {Blank} \cup Inputs :
       Len(clients) < MaxTabs /\ CreateSurface(id, url)
  \/ \E id \in Ids : SwitchSurface(id)
  \/ \E id \in Ids : CloseSurface(id)
  \/ \E input \in Inputs : CanvasNavigate(input)
  \/ \E c \in 1..Len(clients), input \in Inputs : ClientNavigate(c, input)
  \/ \E c \in 1..Len(clients), ok \in BOOLEAN : InitResume(c, ok)
  \/ \E c \in 1..Len(clients) : InitThen(c)
  \/ \E c \in 1..Len(clients) : LoadStart(c)
  \/ \E c \in 1..Len(clients), doc \in DocsOk : LoadStop(c, OwnFrame, doc)
  \/ \E c \in 1..Len(clients), doc \in DocsOk \cup {DocFail} :
       (frames[c].inDom => doc # DocFail) /\ Tick(c, doc)

\* every operation of the canvas and of its clients, on up to MaxTabs tabs
Spec == Init /\ [][Next]_vars

NextCanvas ==
  \/ \E id \in DrawableIds :
       Len(clients) < MaxSurfaces /\ CreateSurface(id, Blank)
  \/ \E id \in Ids : SwitchSurface(id)
  \/ \E id \in Ids : CloseSurface(id)
  \/ \E c \in 1..Len(clients) : LoadStart(c)

\* the canvas' own operations on up to MaxSurfaces tabs, whose documents
\* may start to unload
SpecCanvas == Init /\ [][NextCanvas]_vars

NextClient ==
  \/ \E url \in {Blank} \cup Inputs : clients = <<>> /\ CreateSurface(1, url)
  \/ \E c \in 1..Len(clients) : ClientInit(c)
  \/ \E c \in 1..Len(clients), f \in Frames :
       Len(clients[c].loadListeners) <= MaxRebinds /\ SetFrame(c, f)
  \/ \E c \in 1..Len(clients), input \in Inputs : ClientNavigate(c, input)
  \/ \E c \in 1..Len(clients), ok \in BOOLEAN : InitResume(c, ok)
  \/ \E c \in 1..Len(clients) : InitThen(c)
  \/ \E c \in 1..Len(clients) : LoadStart(c)
  \/ \E c \in 1..Len(clients), f \in Frames, doc \in DocsRead :
       (\E i \in 1..Len(clients[c].loadListeners) : clients[c].loadListeners[i] = f)
       /\ LoadStop(c, f, doc)
  \/ \E c \in 1..Len(clients), doc \in DocsRead : Tick(c, doc)

\* one session: every operation of its client, every signal of its iframes
\* and every document they can show, with the history of events kept
SpecClient == InitClient /\ [][NextClient]_vars

NextResolve ==
  \/ clients = <<>> /\ CreateSurface(1, Blank)
  \/ \E c \in 1..Len(clients), ok \in BOOLEAN : InitResume(c, ok)
  \/ \E c \in 1..Len(clients) : InitThen(c)
  \/ \E c \in 1..Len(clients), input \in ResolveInputs : ClientNavigate(c, input)

\* one session whose client is given every input of ResolveInputs
SpecResolve == Init /\ [][NextResolve]_vars

NextSignals ==
  \/ \E url \in {Blank} \cup Inputs : clients = <<>> /\ CreateSurface(1, url)
  \/ \E c \in 1..Len(clients), input \in Inputs : ClientNavigate(c, input)
  \/ \E c \in 1..Len(clients), ok \in BOOLEAN : InitResume(c, ok)
  \/ \E c \in 1..Len(clients) : InitThen(c)
  \/ \E c \in 1..Len(clients) : NewDocument(c, OwnFrame)
  \/ \E c \in 1..Len(clients) : LoadStart(c)
  \/ \E c \in 1..Len(clients), doc \in DocsSignal : LoadStop(c, OwnFrame, doc)
  \/ \E c \in 1..Len(clients), doc \in DocsSignal : Tick(c, doc)

\* one session whose iframe shows one document after another
SpecSignals == Init /\ [][NextSignals]_vars

\* the timer of the first client fires and reads a document that is complete
TickComplete == \E doc \in DocsSignal : doc.ok /\ doc.complete /\ Tick(1, doc)

NextSafetyNet ==
  \/ \E url \in {Blank} \cup Inputs : clients = <<>> /\ CreateSurface(1, url)
  \/ \E c \in 1..Len(clients), input \in Inputs : ClientNavigate(c, input)
  \/ \E c \in 1..Len(clients), ok \in BOOLEAN : InitResume(c, ok)
  \/ \E c \in 1..Len(clients) : InitThen(c)
  \/ \E c \in 1..Len(clients) : LoadStart(c)
  \/ \E c \in 1..Len(clients), doc \in DocsSignal : Tick(c, doc)

\* TickComplete can be taken exactly when the client exists: its iframe
\* stays in the DOM here, and of two locations one differs from the last read
TickCompleteEnabled == clients # <<>>

\* one session whose iframe never fires load. setInterval keeps the timer
\* firing, and the document keeps being found readable and complete: this
\* is weak fairness of TickComplete, WF_vars(TickComplete), written out as
\* []<>(~ENABLED <<A>>_vars) \/ []<><<A>>_vars with the enabling condition
\* TickCompleteEnabled. A TickComplete step is a step whose trace starts
\* with a tick; the inputs of different operations have different shapes,
\* so the states of a step are compared as text.
SpecSafetyNet ==
  /\ Init /\ [][NextSafetyNet]_vars
  /\ \/ []<>(~TickCompleteEnabled)
     \/ []<><<trace'[1].op = "tick" /\ TickComplete>>_(ToString(vars))

\* ============================================================== properties
\* the operation the last action performed
Did(op) == trace # <<>> /\ trace[1].op = op

\* the notifications the canvas emitted itself during the last action
HostEntries == {i \in 1..Len(trace) : trace[i].t = "host"}

\* the events clients emitted during the last action
ClientEntries == {i \in 1..Len(trace) : trace[i].t = "client"}

Emitted(kind, data) ==
  \E i \in HostEntries : trace[i].kind = kind /\ trace[i].data = data

\* the sessions of collection m other than id, in m's order
Remaining(m, id) == SelectSeq(m, LAMBDA s : s.id # id)

IdsDistinct ==
  \A i, j \in 1..Len(clients) : i # j => clients[i].id # clients[j].id

ActiveOnly ==
  {NAVIGATING, URL_CHANGE, STATUS_CHANGE, LOADING_START, LOADING_STOP, READY, ERROR}

Passive == {TITLE_CHANGE, FAVICON_CHANGE}

\* the 'updated' notification carrying the session stored under id in m
Updated(m, id) == [t |-> "host", kind |-> SURFACE_UPDATE, data |-> MapGet(m, id)]

\* C1: closeSurface(id) of a session in the collection. If id was active and
\* sessions remain, the first remaining one in insertion order is active
\* afterwards and a surfaceChange carrying it was emitted; if none remains,
\* activeSurfaceId is null and surfaceChange(null) was emitted. If id was not
\* active, activeSurfaceId is what it was.
C1_CloseActivatesFirstRemaining ==
  (Did("closeSurface") /\ MapHas(trace[1].before, trace[1].id)) =>
    LET call == trace[1]
        rest == Remaining(call.before, call.id)
    IN  IF call.active # call.id THEN activeSurfaceId = call.active
        ELSE IF Len(rest) > 0
             THEN /\ activeSurfaceId = rest[1].id
                  /\ Emitted(SURFACE_CHANGE, rest[1])
             ELSE /\ activeSurfaceId = NoId
                  /\ Emitted(SURFACE_CHANGE, NoSurface)

\* the active session was closed while two others, of distinct ids, remained
C1_Witness ==
  /\ Did("closeSurface")
  /\ trace[1].active = trace[1].id
  /\ Len(surfaces) = 2
  /\ Len(trace[1].before) = 3
  /\ activeSurfaceId = surfaces[1].id

\* C5: activeSurfaceId is null or the id of exactly one session of the
\* collection.
C5_ActiveInCollection ==
  \/ activeSurfaceId = NoId
  \/ Cardinality({i \in 1..Len(surfaces) : surfaces[i].id = activeSurfaceId}) = 1

\* the active session was closed and a session other than the first created
\* one is active
C5_Witness ==
  /\ Did("closeSurface")
  /\ trace[1].active = trace[1].id
  /\ activeSurfaceId # NoId
  /\ activeSurfaceId # clients[1].id

\* C6: while the host has called nothing but createSurface, the first call
\* activates the session it creates, and every later call leaves
\* activeSurfaceId as it was.
C6_OnlyFirstCreateActivates ==
  (onlyCreates /\ Did("createSurface")) =>
    LET call == trace[1]
    IN  IF call.c = 1
        THEN /\ activeSurfaceId = call.id
             /\ Emitted(SURFACE_CHANGE, MapGet(surfaces, call.id))
             /\ frames[1].display = "block"
        ELSE activeSurfaceId = call.active

\* a third createSurface in a row
C6_Witness ==
  /\ onlyCreates
  /\ Did("createSurface")
  /\ trace[1].c = 3
  /\ Len(surfaces) = 3
  /\ activeSurfaceId = clients[1].id

\* C7, as claimed: no createSurface returns an id an earlier createSurface
\* returned, so that an insertion never replaces an entry of the collection.
C7_IdsNeverReused ==
  /\ IdsDistinct
  /\ Did("createSurface") =>
       /\ ~MapHas(trace[1].before, trace[1].id)
       /\ Len(surfaces) = Len(trace[1].before) + 1

\* createSurface switched to the session it created
Activated ==
  /\ Did("createSurface")
  /\ \E i \in HostEntries :
       trace[i].kind = SURFACE_CHANGE /\ trace[i].data.client = trace[1].c

\* C8, as claimed: (with ids that never collide) createSurface activates the
\* new session only if it is the first session ever inserted.
C8_ActivatesOnlyFirstEver ==
  (Activated /\ IdsDistinct) => trace[1].c = 1

\* C8, amended: createSurface activates the new session exactly when the
\* collection holds no other session once it is inserted.
C8_ActivatesWhenAlone ==
  Did("createSurface") =>
    /\ Activated <=> Len(surfaces) = 1
    /\ Activated =>
         /\ activeSurfaceId = trace[1].id
         /\ frames[trace[1].c].display = "block"
    /\ ~Activated =>
         /\ activeSurfaceId = trace[1].active
         /\ frames[trace[1].c].display = "none"

\* a session created after every earlier one was closed is activated
C8_Witness ==
  /\ Activated
  /\ IdsDistinct
  /\ trace[1].c > 1
  /\ trace[1].before = <<>>

\* C9, as claimed: switchSurface(id) with id already active emits
\* surfaceChange, leaves activeSurfaceId as it was and never hides the
\* active iframe.
C9_SwitchToActiveNeverHides ==
  (Did("switchSurface") /\ trace[1].active = trace[1].id
     /\ MapHas(trace[1].before, trace[1].id)) =>
    LET call == trace[1]
        surface == MapGet(call.before, call.id)
    IN  /\ activeSurfaceId = call.active
        /\ Emitted(SURFACE_CHANGE, surface)
        /\ frames[surface.client].display = "block"
        /\ \A i \in 1..Len(trace) :
             trace[i].t = "display" /\ trace[i].c = surface.client
               => trace[i].value # "none"

\* what the listeners of the canvas delivered for client event e, by kind
OutKinds(e) == {e.out[k].kind : k \in 1..Len(e.out)}

\* C2, as claimed: an active-only event emitted by a client whose id is not
\* the active one makes the canvas deliver nothing at all.
C2_BackgroundEventsDropped ==
  \A i \in ClientEntries :
    (trace[i].kind \in ActiveOnly /\ trace[i].id # trace[i].active)
      => trace[i].out = <<>>

\* C2, amended: for such an event the canvas delivers no active-only (and
\* no title or favicon) notification: nothing at all for navigating,
\* urlChange, statusChange, ready and error; for loadingStart and
\* loadingStop exactly one surfaceUpdate carrying the session stored under
\* the client's id, if the collection has one, and nothing otherwise.
C2_BackgroundEventsNotBubbled ==
  \A i \in ClientEntries :
    LET e == trace[i]
    IN  (e.kind \in ActiveOnly /\ e.id # e.active) =>
          /\ OutKinds(e) \subseteq {SURFACE_UPDATE}
          /\ e.after = e.before
          /\ IF e.kind \in {LOADING_START, LOADING_STOP} /\ MapHas(e.before, e.id)
             THEN e.out = <<Updated(e.before, e.id)>>
             ELSE e.out = <<>>

\* one callback of a background session's client emitted urlChange, which
\* was dropped, and loadingStop, which was answered by a surfaceUpdate
C2_Witness ==
  /\ \E i \in ClientEntries :
       /\ trace[i].kind = URL_CHANGE
       /\ trace[i].id # trace[i].active
       /\ MapHas(trace[i].before, trace[i].id)
       /\ trace[i].active # NoId
  /\ \E i \in ClientEntries :
       /\ trace[i].kind = LOADING_STOP
       /\ trace[i].id # trace[i].active
       /\ trace[i].out # <<>>

\* C3, as claimed: a titleChange / faviconChange of any client is forwarded
\* to the host as titleChange / faviconChange.
C3_TitleAlwaysForwarded ==
  \A i \in ClientEntries :
    trace[i].kind \in Passive =>
      \E k \in 1..Len(trace[i].out) :
        trace[i].out[k].kind = trace[i].kind /\ trace[i].out[k].data = trace[i].data

\* C3, amended: a titleChange / faviconChange of a client, active or not,
\* whose id is in the collection first stores the value in the session
\* under that id and is then forwarded as a surfaceUpdate carrying that
\* session; a titleChange / faviconChange notification follows only if the
\* client's id is the active one. With the id not in the collection nothing
\* is stored.
C3_TitleForwardedAsUpdate ==
  \A i \in ClientEntries :
    LET e == trace[i]
        same == [t |-> "host", kind |-> e.kind, data |-> e.data]
    IN  e.kind \in Passive =>
          /\ MapHas(e.before, e.id) =>
               /\ MapHas(e.after, e.id)
               /\ e.kind = TITLE_CHANGE => MapGet(e.after, e.id).title = e.data
               /\ e.kind = FAVICON_CHANGE => MapGet(e.after, e.id).favicon = e.data
          /\ ~MapHas(e.before, e.id) => e.after = e.before
          /\ e.out = (IF MapHas(e.before, e.id)
                      THEN <<Updated(e.after, e.id)>> ELSE <<>>)
                     \o (IF e.id = e.active THEN <<same>> ELSE <<>>)

\* a background session's client reported a favicon, answered by one
\* notification only
C3_Witness ==
  \E i \in ClientEntries :
    /\ trace[i].kind = FAVICON_CHANGE
    /\ trace[i].id # trace[i].active
    /\ trace[i].active # NoId
    /\ Len(trace[i].out) = 1

\* C4: a titleChange / faviconChange of the client of a session that is in
\* the collection and not active stores the reported value in that session,
\* makes the canvas emit exactly one surfaceUpdate, carrying that session,
\* and no active-only notification, and changes neither activeSurfaceId nor
\* any other session.
C4_BackgroundTitleFrame ==
  \A i \in ClientEntries :
    LET e == trace[i]
    IN  (/\ e.kind \in Passive
         /\ e.id # e.active
         /\ MapHas(e.before, e.id)
         /\ MapGet(e.before, e.id).client = e.c) =>
          LET k == MapIndex(e.before, e.id)
              expected ==
                IF e.kind = TITLE_CHANGE
                THEN [e.before[k] EXCEPT !.title = e.data]
                ELSE [e.before[k] EXCEPT !.favicon = e.data]
              updates == {n \in 1..Len(e.out) : e.out[n].kind = SURFACE_UPDATE}
          IN  /\ e.after = [e.before EXCEPT ![k] = expected]
              /\ Cardinality(updates) = 1
              /\ \A n \in updates : e.out[n].data = expected
              /\ OutKinds(e) \cap ActiveOnly = {}
              /\ activeSurfaceId = e.active
              /\ trace[1].active = e.active

\* the client of a background session reported a title while another
\* session was active
C4_Witness ==
  \E i \in ClientEntries :
    /\ trace[i].kind = TITLE_CHANGE
    /\ trace[i].id # trace[i].active
    /\ trace[i].active # NoId
    /\ MapHas(trace[i].before, trace[i].id)
    /\ MapGet(trace[i].before, trace[i].id).client = trace[i].c
    /\ Len(trace[i].before) = 2
    /\ MapGet(trace[i].after, trace[i].id).title = "T"

NavigateOps == {"navigate", "canvas.navigate", "init.then"}

\* C10: navigate on a client that is not ready throws 'Client not ready' to
\* its caller and does nothing else: the client's state is as before (after
\* the init().then() callback, only that the callback has run), no event is
\* emitted, iframe.src is not written, the canvas is untouched.
C10_NavigateNotReady ==
  [][\A c \in 1..Len(clients) :
       (/\ trace' # <<>>
        /\ trace'[1].op \in NavigateOps
        /\ trace'[1].c = c
        /\ trace'[1].op = "init.then" => NonBlank(clients[c].url)
        /\ ~clients[c].ready) =>
         /\ trace' = <<trace'[1], [t |-> "throw", c |-> c, data |-> "Client not ready"]>>
         /\ clients' = [clients EXCEPT ![c] =
                          IF trace'[1].op = "init.then"
                          THEN [@ EXCEPT !.pc = "done", !.url = Blank] ELSE @]
         /\ UNCHANGED <<surfaces, activeSurfaceId, frames>>]_vars

\* the host called navigate on a client whose init() had not finished
C10_Witness ==
  /\ Did("navigate")
  /\ ~clients[trace[1].c].ready
  /\ clients[trace[1].c].initialized
  /\ Len(trace) = 2
  /\ trace[2].t = "throw"

\* setFrame was never called after construction
NeverRebound == \A c \in 1..Len(clients) : Len(clients[c].loadListeners) = 1

\* C11: after the navigating event of a successful navigate() and before the
\* next loadingStart, over any interleaving of ticks with the one load event
\* that follows, the client emits loadingStop at most once (the finite half
\* of "exactly once"); the client's iframe was set once.
C11_OneStopPerNavigation ==
  (NeverRebound /\ seen.loads <= 1) => seen.stops <= 1

\* the favicon a client knows: the last one it read, or the one a session is
\* created with (empty) while it has read none
LastKnownFavicon(cl) == IF cl.lastFavicon = Undefined THEN "" ELSE cl.lastFavicon

\* C12: in a step that reads the iframe's document (a tick or a load event),
\* a titleChange carries a title other than the client's last known title and
\* a faviconChange a favicon other than its last known favicon; a fresh
\* client that reads the empty favicon emits no faviconChange.
C12_MetadataOnlyOnChange ==
  [][\A i \in 1..Len(trace') :
       (trace'[1].op \in {"tick", "load"} /\ trace'[i].t = "client") =>
         /\ trace'[i].kind = TITLE_CHANGE =>
              trace'[i].data # clients[trace'[i].c].lastTitle
         /\ trace'[i].kind = FAVICON_CHANGE =>
              trace'[i].data # LastKnownFavicon(clients[trace'[i].c])]_vars

\* C13: an init() call after the first one (which createSurface made),
\* whatever that first call's outcome, changes no state of the client and
\* emits no notification.
C13_LaterInitDoesNothing ==
  [][(trace' # <<>> /\ trace'[1].op = "init") =>
       (clients' = clients /\ Len(trace') = 1)]_vars

\* the clients whose interval is running
LiveTimers == {c \in 1..Len(clients) : clients[c].pollingInterval \in Frames}

\* C14: while ids are distinct, after any createSurface / closeSurface calls
\* there are as many running intervals as sessions in the collection, and no
\* tick runs for a client whose session was closed (its iframe removed).
C14_TimerCancelledOnClose ==
  IdsDistinct =>
    /\ Cardinality(LiveTimers) = Len(surfaces)
    /\ Did("tick") => frames[trace[1].c].inDom

\* the events of the given kind that clients emitted during the last action
EntriesOf(kind) == {i \in ClientEntries : trace[i].kind = kind}

\* C15: after any setFrame calls on a client, one load event of the iframe it
\* is bound to yields at most one loadingStop, and a load event of an iframe
\* it was bound to before yields no notification at all.
C15_OneObserverSet ==
  Did("load") =>
    /\ Cardinality(EntriesOf(LOADING_STOP)) <= 1
    /\ trace[1].input.frame # clients[trace[1].c].iframe => ClientEntries = {}

\* C16: the callback createSurface chained on client.init() calls navigate
\* only on a client that is ready and whose session was not closed; otherwise
\* it does nothing, and no exception of it is left unhandled.
C16_InitialNavigationOnlyWhenReady ==
  /\ unhandled = {}
  /\ Did("init.then") =>
       \/ Len(trace) = 1
       \/ clients[trace[1].c].ready /\ frames[trace[1].c].inDom

\* the input of the last navigate call, trimmed
Trimmed == Trim(trace[1].input)

\* the URL the last navigate call resolved its input to: what it wrote to
\* iframe.src, decoded
Resolved ==
  LET i == CHOOSE j \in 1..Len(trace) : trace[j].t = "src"
  IN  decodeUrl(trace[i].data)

HttpPrefixed(s) == NewURL(<<"http", ":", "/", "/">> \o s)

Navigated == Did("navigate") /\ \E j \in 1..Len(trace) : trace[j].t = "src"

\* C17 as stated: an input that parses as an absolute URL is used unchanged;
\* otherwise, if 'http://' + input parses with a dot in its host, that URL
\* is used; otherwise the search template with the percent-encoded input.
C17_ResolvedUnchanged ==
  Navigated =>
    IF NewURL(Trimmed).ok THEN Resolved = Trimmed
    ELSE IF HttpPrefixed(Trimmed).ok /\ IndexOf(HttpPrefixed(Trimmed).hostname, ".") # 0
         THEN Resolved = HttpPrefixed(Trimmed).href
         ELSE Resolved = SearchTemplate \o encodeURIComponent(Trimmed)

\* C17 (amended): an input that parses as an absolute URL resolves to that
\* URL's serialisation (which re-parses to itself); otherwise, if
\* 'http://' + input parses with a dot in its host, to that URL's
\* serialisation; otherwise to the search template followed by the
\* percent-encoded input. Only the third outcome starts with the template.
C17_ResolvedInOrder ==
  Navigated =>
    LET direct == NewURL(Trimmed)
        withProtocol == HttpPrefixed(Trimmed)
        search == SearchTemplate \o encodeURIComponent(Trimmed)
    IN  /\ IF direct.ok THEN Resolved = direct.href
           ELSE IF withProtocol.ok /\ IndexOf(withProtocol.hostname, ".") # 0
                THEN Resolved = withProtocol.href
                ELSE Resolved = search
        /\ Resolved = search <=>
             ~direct.ok /\ ~(withProtocol.ok /\ IndexOf(withProtocol.hostname, ".") # 0)
        /\ Resolved # search =>
             NewURL(Resolved).ok /\ NewURL(Resolved).href = Resolved

\* an absolute URL was given and was resolved to a different string
C17_Witness ==
  /\ Navigated
  /\ NewURL(Trimmed).ok
  /\ Resolved # Trimmed
  /\ Trimmed # trace[1].input

\* C18: a client emits loadingStart only in a step it entered with loading
\* false, whether the step is a load-begin signal or a navigate call.
C18_StartOnlyOnTransition ==
  [][\A i \in 1..Len(trace') :
       (trace'[i].t = "client" /\ trace'[i].kind = LOADING_START) =>
         ~clients[trace'[i].c].loading]_vars

\* C19: in every state of every client, ready implies initialized and
\* loading implies ready.
C19_LoadingOnlyWhileReady ==
  \A c \in 1..Len(clients) :
    /\ clients[c].ready => clients[c].initialized
    /\ clients[c].loading => clients[c].ready

\* the urlChange events of the step being taken
UrlChanges == {i \in 1..Len(trace') :
                 trace'[i].t = "client" /\ trace'[i].kind = URL_CHANGE}

\* C20: a step (a tick or a load event, in any interleaving) emits at most
\* one urlChange; it carries the location just read, which differs from the
\* client's lastKnownUrl before the step and is its lastKnownUrl after it,
\* and which differs from the raw URL of the urlChange before it.
C20_UrlChangeOnlyOnChange ==
  [][/\ Cardinality(UrlChanges) <= 1
     /\ \A i \in UrlChanges :
          /\ trace'[1].op \in {"tick", "load"}
          /\ trace'[i].data.original = trace'[1].input.doc.url
          /\ trace'[i].data.original # clients[trace'[i].c].lastUrl
          /\ trace'[i].data.original = clients'[trace'[i].c].lastUrl
          /\ trace'[i].data.original # seen.url]_vars

\* a tick read the location the latest urlChange reported, and reported
\* nothing; the load listener had reported it
C20_Witness ==
  /\ Did("tick")
  /\ trace[1].input.doc.ok
  /\ trace[1].input.doc.url = seen.url
  /\ EntriesOf(URL_CHANGE) = {}
  /\ clients[1].lastUrl = seen.url
  /\ seen.loads = 1

\* the host was delivered a notification of the given kind during the last
\* action: one the canvas emitted itself, or one it forwarded for a client
HostReceived(kind) ==
  \E i \in 1..Len(trace) :
    \/ trace[i].t = "host" /\ trace[i].kind = kind
    \/ /\ trace[i].t = "client"
       /\ \E j \in 1..Len(trace[i].out) : trace[i].out[j].kind = kind

\* client c belongs to the active session
IsActiveClient(c) ==
  /\ activeSurfaceId # NoId
  /\ MapHas(surfaces, activeSurfaceId)
  /\ MapGet(surfaces, activeSurfaceId).client = c

\* C21: when init() of the active session's client fails, the host is
\* delivered an error notification in that step: for a failure of the
\* environment check (inside createSurface, which activates a first
\* session) and for a failure of a dependency (after the awaits).
C21_ActiveInitFailureReported ==
  /\ (Did("createSurface") /\ IsActiveClient(trace[1].c)
        /\ clients[trace[1].c].error # "null") => HostReceived(ERROR)
  /\ (Did("init.resume") /\ IsActiveClient(trace[1].c)
        /\ clients[trace[1].c].error = "dep") => HostReceived(ERROR)

\* C22: after a load event whose read of the iframe succeeded, the client's
\* beforeunload / unload listeners are on the iframe's current document,
\* whether or not the location changed.
C22_TrackedAfterEveryLoad ==
  (Did("load") /\ trace[1].input.doc.ok) =>
    trace[1].input.frame \in clients[trace[1].c].tracked

\* C23: with the timer firing and the document readable and complete, a
\* client that is loading is later not loading, with no load event at all;
\* and a tick whose read fails changes no state of the client and emits
\* nothing.
C23_SafetyNet ==
  /\ (clients # <<>> /\ clients[1].loading) ~> (clients # <<>> /\ ~clients[1].loading)
  /\ [][(trace' # <<>> /\ trace'[1].op = "tick" /\ trace'[1].input.doc.ok
           /\ trace'[1].input.doc.complete /\ clients[trace'[1].c].loading) =>
          /\ ~clients'[trace'[1].c].loading
          /\ \E i \in 1..Len(trace') :
               trace'[i].t = "client" /\ trace'[i].kind = LOADING_STOP]_vars
  /\ [][(trace' # <<>> /\ trace'[1].op = "tick" /\ ~trace'[1].input.doc.ok) =>
          (clients' = clients /\ Len(trace') = 1)]_vars

\* a tick found the client loading and the document complete, and emitted
\* loadingStop
C23_Witness ==
  /\ Did("tick")
  /\ trace[1].input.doc.complete
  /\ EntriesOf(LOADING_STOP) # {}
  /\ ~clients[1].loading

\* the notifications the canvas emitted itself during the last action, in
\* order
HostSeq == SelectSeq(trace, LAMBDA e : e.t = "host")

\* C24: whenever a session is active and the host was notified of
\* loadingStart or loadingStop since it became active, the latest of them
\* is loadingStart iff the active session's client is loading; and a
\* switchSurface to an existing session notifies surfaceChange, then
\* statusChange with the target client's state, then the loadingStart or
\* loadingStop that matches it.
C24_SpinnerConsistent ==
  /\ (activeSurfaceId # NoId /\ MapHas(surfaces, activeSurfaceId)
        /\ seen.spinner # "none") =>
       (seen.spinner = "start" <=>
          clients[MapGet(surfaces, activeSurfaceId).client].loading)
  /\ (Did("switchSurface") /\ MapHas(trace[1].before, trace[1].id)) =>
       LET target == MapGet(surfaces, trace[1].id)
           state == getState(clients[target.client])
       IN  /\ Len(HostSeq) = 3
           /\ HostSeq[1].kind = SURFACE_CHANGE /\ HostSeq[1].data = target
           /\ HostSeq[2].kind = STATUS_CHANGE /\ HostSeq[2].data = state
           /\ HostSeq[3].kind = IF state.loading THEN LOADING_START
                                                 ELSE LOADING_STOP

\* C24 for runs in which no two sessions were given the same id
C24_SpinnerConsistentDistinct == IdsDistinct => C24_SpinnerConsistent

\* the sessions of the collection whose iframe is shown
Shown == {i \in 1..Len(surfaces) : frames[surfaces[i].client].display = "block"}

\* C25: after createSurface, switchSurface and closeSurface, a session of
\* the collection is shown iff its id is activeSurfaceId: at most one is
\* shown, and none when activeSurfaceId is null.
C25_ShownIffActive ==
  (Did("createSurface") \/ Did("switchSurface") \/ Did("closeSurface")) =>
    /\ \A i \in 1..Len(surfaces) : i \in Shown <=> surfaces[i].id = activeSurfaceId
    /\ Cardinality(Shown) <= 1
    /\ activeSurfaceId = NoId => Shown = {}

\* C25 for runs in which no two sessions were given the same id
C25_ShownIffActiveDistinct == IdsDistinct => C25_ShownIffActive

\* the events emitted during the last action by clients whose session had
\* been closed (closeSurface removes the iframe and emits no client event)
ClosedEntries == {i \in ClientEntries : ~frames[trace[i].c].inDom}

\* C26: an event a client emits after its session was closed (from a late
\* end of init, a late navigate, a load event or a tick) makes the canvas
\* notify the host of nothing and leaves the collection as it was.
C26_ClosedSessionInert ==
  \A i \in ClosedEntries :
    /\ trace[i].out = <<>>
    /\ trace[i].after = trace[i].before

\* C26 for runs in which no two sessions were given the same id
C26_ClosedSessionInertDistinct == IdsDistinct => C26_ClosedSessionInert
====
